---- MODULE Spec2Model ----
(***************************************************************************)
(* PiFind (src/pifind.py): the search loop that slides two nibble-offset   *)
(* byte windows over the hexadecimal digits of pi, scores every full       *)
(* window against the colour pattern of the target image, keeps the best   *)
(* window and writes it to found.gif, and the deferred-interrupt handler.  *)
(*                                                                         *)
(* A Python name that is not bound yet is modelled by the empty tuple      *)
(* (index, bestbytes, misrpt, report); index is <<i>> once bound.          *)
(* Printing (headline, status, the progress line) changes no state and is  *)
(* left out; of found.gif only the pixel data is kept, the palette is a    *)
(* function of the same histogram and no property below reads it.          *)
(***************************************************************************)
EXTENDS Integers, Sequences, FiniteSets, TLC

\* ---------------------------------------------------------------- bounds
MaxPix == 3        \* largest target image, in pixels
MaxStream == 6     \* longest digit source, in hex digits after "3."
MaxSignals == 3    \* signals the environment delivers at most

\* ASCII codes the digit source may hold: '3' and 'a'
Chars == {51, 97}

VARIABLES
    pattern,    \* list of family indices, one per pixel (line 182)
    numcol,     \* number of colours selected (line 153)
    stream,     \* the ASCII digits pigen will yield, batches concatenated
    nread,      \* enumerate's counter: digits taken from dribble so far
    cur,        \* deque updated in this iteration
    other,      \* deque updated in the previous iteration
    oldhalf,    \* previous nibble
    minmisrpt,  \* best (mismatch, muddle) so far
    misrpt,     \* score of the window scored in this iteration
    index,      \* offset of the best window
    bestbytes,  \* bytes of the best window
    found,      \* the file found.gif
    nomore,     \* deferinterrupt.nomore
    pc,         \* position of the main program
    how,        \* which exit the loop took
    signals,    \* number of signals delivered so far
    afterflag,  \* nibbles taken from the stream while nomore was set
    report      \* the ranges cited by the final message

\* colour selection (lines 152-179); in the search these are not tracked
VARIABLES
    hist,       \* C = Counter(target.getdata()), in order of first appearance
    colors,     \* the colours selected for the pattern
    choice,     \* the answer given to the menu
    rC,         \* reducecolors: C
    rnumcol,    \* reducecolors: numcol
    oldnum,     \* reducecolors: oldnum
    dist,       \* reducecolors: dist
    todo,       \* colorfamilies: the part of C.most_common() not yet visited
    families    \* colorfamilies: families

colorvars == <<hist, colors, choice, rC, rnumcol, oldnum, dist, todo, families>>

searchvars == <<pattern, stream, nread, cur, other, oldhalf, minmisrpt,
                misrpt, index, bestbytes, found, nomore, how, signals,
                afterflag, report>>

vars == <<pattern, numcol, stream, nread, cur, other, oldhalf, minmisrpt,
          misrpt, index, bestbytes, found, nomore, pc, how, signals,
          afterflag, report, hist, colors, choice, rC, rnumcol, oldnum,
          dist, todo, families>>

numpix == Len(pattern)

Unbound == <<>>

\* ------------------------------------------------------------ pure parts

\* dribble: ASCII code of 0..9, a..f to its value
dribble(digit) == digit - (IF digit < 58 THEN 48 ELSE 87)

\* oldhalf << 4 | halfbyte: both are in 0..15, so the OR adds
mkbyte_swapped(hi, lo) == lo * 16 + hi

mkbyte(hi, lo) == hi * 16 + lo

\* deque(maxlen=n).append
dqappend_nomax(dq, x, n) == Append(dq, x)

dqappend(dq, x, n) ==
    IF n = 0 THEN <<>>
    ELSE IF Len(dq) < n THEN Append(dq, x)
    ELSE Append(Tail(dq), x)

\* one row of bytarr after "for b, p in zip(cur, pattern): bytarr[b][p] += 1":
\* a list of nc counts, the count of family p at position p + 1
RECURSIVE rowof(_, _, _, _)
rowof(w, pat, b, nc) ==
    IF nc = 0 THEN <<>>
    ELSE Append(rowof(w, pat, b, nc - 1),
                Cardinality({i \in 1..Len(w) :
                    i <= Len(pat) /\ w[i] = b /\ pat[i] = nc - 1}))

\* bytarr: 256 rows, one per byte value
histogram(w, pat, nc) == [b \in 0..255 |-> rowof(w, pat, b, nc)]

\* sum(colcounts), max(colcounts) and min(colcounts)
RECURSIVE rowsum(_, _)
rowsum(colcounts, n) ==
    IF n = 0 THEN 0 ELSE colcounts[n] + rowsum(colcounts, n - 1)

rowmax_first(colcounts) == colcounts[1]

rowmax(colcounts) ==
    CHOOSE m \in {colcounts[p] : p \in DOMAIN colcounts} :
        \A p \in DOMAIN colcounts : colcounts[p] <= m

rowmin(colcounts) ==
    CHOOSE m \in {colcounts[p] : p \in DOMAIN colcounts} :
        \A p \in DOMAIN colcounts : m <= colcounts[p]

\* what one row of bytarr adds to (mis, muddle) in countmismatch's loop
rowscore_minbug(colcounts) ==
    LET totpix == rowsum(colcounts, Len(colcounts))
    IN <<totpix - rowmin(colcounts),
         IF rowmin(colcounts) # 0 THEN totpix ELSE 0>>

rowscore(colcounts) ==
    LET totpix == rowsum(colcounts, Len(colcounts))
    IN <<totpix - rowmax(colcounts),
         IF rowmin(colcounts) # 0 THEN totpix ELSE 0>>

\* the sums over rows lo..hi, split in halves to keep the recursion shallow
RECURSIVE mismatchrows(_, _, _)
mismatchrows(bytarr, lo, hi) ==
    IF lo = hi THEN rowscore(bytarr[lo])
    ELSE LET mid == (lo + hi) \div 2
             a == mismatchrows(bytarr, lo, mid)
             b == mismatchrows(bytarr, mid + 1, hi)
         IN <<a[1] + b[1], a[2] + b[2]>>

countmismatch(bytarr) == mismatchrows(bytarr, 0, 255)

\* tuple comparison misrpt < minmisrpt
tuplelt_misonly(a, b) == a[1] < b[1]

tuplelt_leq(a, b) == a[1] < b[1] \/ (a[1] = b[1] /\ a[2] <= b[2])

tuplelt(a, b) == a[1] < b[1] \/ (a[1] = b[1] /\ a[2] < b[2])

\* index = startpos - numpix*2 + 1
indexof_offbyone(startpos, n) == startpos - n * 2

indexof(startpos, n) == startpos - n * 2 + 1

\* ordinal(n): the number and the suffix chosen for it
ordinal(n) ==
    LET ends == <<"th", "st", "nd", "rd", "th">>
        d == n % 10
    IN IF (n % 100) \div 10 = 1 THEN <<n, "th">>
       ELSE <<n, ends[(IF d < 4 THEN d ELSE 4) + 1]>>

\* ------------------------------------------------------------ the inputs

\* colors = list(C.keys()) and pattern = [colors.index(...)]: for an image of
\* at most 6 colours every colour is numbered in order of first appearance
FirstUse(pat) ==
    \A i \in 1..Len(pat) :
        \/ pat[i] = 0
        \/ \E j \in 1..(i - 1) : pat[j] = pat[i] - 1

\* the search starts after colour selection, whose locals it does not read
ColorsDone ==
    /\ hist = <<>>
    /\ colors = <<>>
    /\ choice = "none"
    /\ rC = <<>>
    /\ rnumcol = 0
    /\ oldnum = 0
    /\ dist = 0
    /\ todo = <<>>
    /\ families = <<>>

Patterns ==
    UNION {{pat \in [1..n -> 0..(n - 1)] : FirstUse(pat)} : n \in 1..MaxPix}

Streams == UNION {[1..n -> Chars] : n \in 0..MaxStream}

Init_lowbest ==
    /\ pattern \in Patterns
    /\ numcol = Cardinality({pattern[i] : i \in 1..Len(pattern)})
    /\ stream \in Streams
    /\ nread = 0
    /\ cur = <<>>
    /\ other = <<>>
    /\ oldhalf = 3
    /\ minmisrpt = <<numpix - 1, 0>>
    /\ misrpt = Unbound
    /\ index = Unbound
    /\ bestbytes = Unbound
    /\ found = [state |-> "absent", data |-> <<>>]
    /\ nomore = FALSE
    /\ pc = "loop"
    /\ how = "running"
    /\ signals = 0
    /\ afterflag = 0
    /\ report = Unbound
    /\ ColorsDone

Init ==
    /\ pattern \in Patterns
    /\ numcol = Cardinality({pattern[i] : i \in 1..Len(pattern)})
    /\ stream \in Streams
    /\ nread = 0
    /\ cur = <<>>
    /\ other = <<>>
    /\ oldhalf = 3
    /\ minmisrpt = <<numpix, numpix>>
    /\ misrpt = Unbound
    /\ index = Unbound
    /\ bestbytes = Unbound
    /\ found = [state |-> "absent", data |-> <<>>]
    /\ nomore = FALSE
    /\ pc = "loop"
    /\ how = "running"
    /\ signals = 0
    /\ afterflag = 0
    /\ report = Unbound
    /\ ColorsDone

\* ----------------------------------------------------------- the actions

startpos == nread - 1

\* for startpos, halfbyte in enumerate(dribble(pigen)): ... continue
Fetch_noswap ==
    /\ pc = "loop"
    /\ nread < Len(stream)
    /\ LET halfbyte == dribble(stream[nread + 1])
           newcur == dqappend(cur, mkbyte(oldhalf, halfbyte), numpix)
       IN /\ cur' = newcur
          /\ other' = other
          /\ oldhalf' = halfbyte
          /\ pc' = IF Len(newcur) < numpix THEN "loop" ELSE "score"
    /\ nread' = nread + 1
    /\ afterflag' = IF nomore THEN afterflag + 1 ELSE afterflag
    /\ UNCHANGED colorvars
    /\ UNCHANGED <<pattern, numcol, stream, minmisrpt, misrpt, index,
                   bestbytes, found, nomore, how, signals, report>>

Fetch ==
    /\ pc = "loop"
    /\ nread < Len(stream)
    /\ LET halfbyte == dribble(stream[nread + 1])
           newcur == dqappend(other, mkbyte(oldhalf, halfbyte), numpix)
       IN /\ cur' = newcur
          /\ other' = cur
          /\ oldhalf' = halfbyte
          /\ pc' = IF Len(newcur) < numpix THEN "loop" ELSE "score"
    /\ nread' = nread + 1
    /\ afterflag' = IF nomore THEN afterflag + 1 ELSE afterflag
    /\ UNCHANGED colorvars
    /\ UNCHANGED <<pattern, numcol, stream, minmisrpt, misrpt, index,
                   bestbytes, found, nomore, how, signals, report>>

\* the for loop finds the generator exhausted
EndOfData ==
    /\ pc = "loop"
    /\ nread = Len(stream)
    /\ pc' = "report"
    /\ how' = "exhausted"
    /\ UNCHANGED colorvars
    /\ UNCHANGED <<pattern, numcol, stream, nread, cur, other, oldhalf,
                   minmisrpt, misrpt, index, bestbytes, found, nomore,
                   signals, afterflag, report>>

\* bytarr, countmismatch and the record of an improvement
Score_savealways ==
    /\ pc = "score"
    /\ LET m == countmismatch(histogram(cur, pattern, numcol))
       IN /\ misrpt' = m
          /\ IF tuplelt(misrpt', minmisrpt)
             THEN /\ minmisrpt' = misrpt'
                  /\ index' = <<indexof(startpos, numpix)>>
                  /\ bestbytes' = cur
             ELSE UNCHANGED <<minmisrpt, index, bestbytes>>
          /\ pc' = "save"
    /\ UNCHANGED colorvars
    /\ UNCHANGED <<pattern, numcol, stream, nread, cur, other, oldhalf,
                   found, nomore, how, signals, afterflag, report>>

Score ==
    /\ pc = "score"
    /\ LET m == countmismatch(histogram(cur, pattern, numcol))
       IN /\ misrpt' = m
          /\ IF tuplelt(misrpt', minmisrpt)
             THEN /\ minmisrpt' = misrpt'
                  /\ index' = <<indexof(startpos, numpix)>>
                  /\ bestbytes' = cur
                  /\ pc' = "save"
             ELSE /\ UNCHANGED <<minmisrpt, index, bestbytes>>
                  /\ pc' = "check"
    /\ UNCHANGED colorvars
    /\ UNCHANGED <<pattern, numcol, stream, nread, cur, other, oldhalf,
                   found, nomore, how, signals, afterflag, report>>

\* saveimg opens found.gif for writing: the old contents are gone
SaveBegin ==
    /\ pc = "save"
    /\ found' = [state |-> "partial", data |-> <<>>]
    /\ pc' = "saving"
    /\ UNCHANGED colorvars
    /\ UNCHANGED <<pattern, numcol, stream, nread, cur, other, oldhalf,
                   minmisrpt, misrpt, index, bestbytes, nomore, how,
                   signals, afterflag, report>>

\* saveimg returns; then the success test
SaveEnd_nobreak ==
    /\ pc = "saving"
    /\ found' = [state |-> "whole", data |-> bestbytes]
    /\ pc' = "check"
    /\ UNCHANGED colorvars
    /\ UNCHANGED <<pattern, numcol, stream, nread, cur, other, oldhalf,
                   minmisrpt, misrpt, index, bestbytes, nomore, how,
                   signals, afterflag, report>>

SaveEnd ==
    /\ pc = "saving"
    /\ found' = [state |-> "whole", data |-> bestbytes]
    /\ IF misrpt[1] = 0
       THEN pc' = "report" /\ how' = "success"
       ELSE pc' = "check" /\ how' = how
    /\ UNCHANGED colorvars
    /\ UNCHANGED <<pattern, numcol, stream, nread, cur, other, oldhalf,
                   minmisrpt, misrpt, index, bestbytes, nomore,
                   signals, afterflag, report>>

\* if deferinterrupt.nomore: break
Check_ignoreflag ==
    /\ pc = "check"
    /\ pc' = "loop"
    /\ UNCHANGED colorvars
    /\ UNCHANGED <<pattern, numcol, stream, nread, cur, other, oldhalf,
                   minmisrpt, misrpt, index, bestbytes, found, nomore, how,
                   signals, afterflag, report>>

Check ==
    /\ pc = "check"
    /\ IF nomore
       THEN pc' = "report" /\ how' = "interrupted"
       ELSE pc' = "loop" /\ how' = how
    /\ UNCHANGED colorvars
    /\ UNCHANGED <<pattern, numcol, stream, nread, cur, other, oldhalf,
                   minmisrpt, misrpt, index, bestbytes, found, nomore,
                   signals, afterflag, report>>

\* sys.exit(...) with the ranges; index may never have been bound
Report ==
    /\ pc = "report"
    /\ IF index = Unbound
       THEN pc' = "NameError" /\ report' = report
       ELSE /\ report' = <<ordinal(index[1] + 1),
                           ordinal(index[1] + 2 * numpix),
                           ordinal(4 * index[1] + 1),
                           ordinal(4 * index[1] + 8 * numpix)>>
            /\ pc' = "exited"
    /\ UNCHANGED colorvars
    /\ UNCHANGED <<pattern, numcol, stream, nread, cur, other, oldhalf,
                   minmisrpt, misrpt, index, bestbytes, found, nomore, how,
                   signals, afterflag>>

Running == {"loop", "score", "save", "saving", "check", "report"}

\* the handler, run between any two steps of the main program
deferinterrupt_dropwindow ==
    /\ pc \in Running
    /\ signals < MaxSignals
    /\ signals' = signals + 1
    /\ IF nomore
       THEN pc' = "KeyboardInterrupt" /\ nomore' = nomore
       ELSE nomore' = TRUE /\ pc' = pc
    /\ other' = <<>>
    /\ UNCHANGED colorvars
    /\ UNCHANGED <<pattern, numcol, stream, nread, cur, oldhalf,
                   minmisrpt, misrpt, index, bestbytes, found, how,
                   afterflag, report>>

deferinterrupt_raisefirst ==
    /\ pc \in Running
    /\ signals < MaxSignals
    /\ signals' = signals + 1
    /\ pc' = "KeyboardInterrupt"
    /\ UNCHANGED colorvars
    /\ UNCHANGED <<pattern, numcol, stream, nread, cur, other, oldhalf,
                   minmisrpt, misrpt, index, bestbytes, found, nomore, how,
                   afterflag, report>>

deferinterrupt_neverraise ==
    /\ pc \in Running
    /\ signals < MaxSignals
    /\ signals' = signals + 1
    /\ nomore' = TRUE
    /\ UNCHANGED colorvars
    /\ UNCHANGED <<pattern, numcol, stream, nread, cur, other, oldhalf,
                   minmisrpt, misrpt, index, bestbytes, found, pc, how,
                   afterflag, report>>

deferinterrupt ==
    /\ pc \in Running
    /\ signals < MaxSignals
    /\ signals' = signals + 1
    /\ IF nomore
       THEN pc' = "KeyboardInterrupt" /\ nomore' = nomore
       ELSE nomore' = TRUE /\ pc' = pc
    /\ UNCHANGED colorvars
    /\ UNCHANGED <<pattern, numcol, stream, nread, cur, other, oldhalf,
                   minmisrpt, misrpt, index, bestbytes, found, how,
                   afterflag, report>>

Next ==
    \/ Fetch
    \/ EndOfData
    \/ Score
    \/ SaveBegin
    \/ SaveEnd
    \/ Check
    \/ Report
    \/ deferinterrupt

Spec == Init /\ [][Next]_vars

\* ------------------------------------------- what the properties refer to

\* the hexadecimal expansion 3.d1 d2 d3 ...: position 0 is the integer digit
PiDigit(p) == IF p = 0 THEN 3 ELSE dribble(stream[p])

\* the n bytes made of the 2*n digits at positions p, p+1, ..., p+2*n-1
RECURSIVE BytesAt(_, _)
BytesAt(p, n) ==
    IF n = 0 THEN <<>>
    ELSE Append(BytesAt(p, n - 1),
                16 * PiDigit(p + 2 * n - 2) + PiDigit(p + 2 * n - 1))

\* the numpix bytes made of the 2*numpix digits that end at position e
WindowEnding(e) == BytesAt(e - 2 * numpix + 1, numpix)

ScoreOf(w) == countmismatch(histogram(w, pattern, numcol))

\* end positions of the windows the scan has seen after n digits, and of
\* those among them that lie entirely after the decimal point
Ends(n) == (2 * numpix - 1)..n
StreamEnds(n) == (2 * numpix)..n

ScoreLess(a, b) == a[1] < b[1] \/ (a[1] = b[1] /\ a[2] < b[2])
LeastScore(S) == CHOOSE s \in S : \A t \in S : s = t \/ ScoreLess(s, t)

\* byte values the digits of Chars (and the leading 3) can form
Nibbles == {3} \cup {dribble(c) : c \in Chars}
Bytes == {16 * h + l : h \in Nibbles, l \in Nibbles}

\* a function from byte values to families that reproduces pat from w; one
\* on the bytes that can occur extends to all 256 values when nc >= 1
HasAssignment(w, pat, nc) ==
    \E f \in [Bytes -> 0..(nc - 1)] : \A i \in 1..Len(pat) : f[w[i]] = pat[i]

Scored == pc \in {"save", "saving", "check"}
Finished == pc \in {"exited", "NameError"}

\* ------------------------------------------------------------ properties

\* C1: the mismatch count of a full window is 0 exactly when some function
\* from byte values to families maps every window byte to the pattern's
\* family at the same position.
C1_ZeroIffAssignment ==
    Scored => ((misrpt[1] = 0) <=> HasAssignment(cur, pattern, numcol))

C1_Witness ==
    /\ pc = "save"
    /\ misrpt[1] = 0
    /\ numcol >= 2
    /\ \E i, j \in 1..numpix : i # j /\ cur[i] = cur[j]

\* C2: the first window in scan order with mismatch count 0 is recorded as
\* the best result with score (0, muddle), and the loop ends in that step:
\* no nibble after the one completing that window is processed.
C2_ExactMatchStops ==
    /\ how = "success" =>
        /\ \A e \in Ends(nread - 1) : ScoreOf(WindowEnding(e))[1] # 0
        /\ minmisrpt = ScoreOf(WindowEnding(nread))
        /\ minmisrpt[1] = 0
        /\ index = <<nread - 2 * numpix>>
        /\ bestbytes = WindowEnding(nread)
    /\ (misrpt # Unbound /\ misrpt[1] = 0) => pc \notin {"loop", "score", "check"}
    /\ (Finished /\ how # "success") =>
        \A e \in Ends(nread) : ScoreOf(WindowEnding(e))[1] # 0

C2_Witness ==
    /\ pc = "exited"
    /\ how = "success"
    /\ numcol >= 2
    /\ index[1] >= 1
    /\ nread < Len(stream)

\* C3 as stated: with no signal and no exact window among the windows of the
\* stream's own digits, the scan ends at the end of the stream with the
\* least score of those windows.
C3_Original ==
    (/\ Finished
     /\ ~nomore
     /\ StreamEnds(Len(stream)) # {}
     /\ \A e \in StreamEnds(Len(stream)) : ScoreOf(WindowEnding(e))[1] # 0)
    => /\ how = "exhausted"
       /\ nread = Len(stream)
       /\ minmisrpt = LeastScore({ScoreOf(WindowEnding(e)) : e \in StreamEnds(Len(stream))})

\* C3 amended: with no signal and no exact window among the windows of the
\* digits 3 d1 d2 ... (the integer digit included), of which there is at
\* least one, the scan ends at the end of the stream and the final best
\* score is the least score of those windows.
C3_LeastOverAllWindows ==
    (/\ Finished
     /\ ~nomore
     /\ Ends(Len(stream)) # {}
     /\ \A e \in Ends(Len(stream)) : ScoreOf(WindowEnding(e))[1] # 0)
    => /\ how = "exhausted"
       /\ nread = Len(stream)
       /\ minmisrpt = LeastScore({ScoreOf(WindowEnding(e)) : e \in Ends(Len(stream))})

C3_Witness ==
    /\ pc = "exited"
    /\ how = "exhausted"
    /\ ~nomore
    /\ index[1] >= 0
    /\ minmisrpt[1] > 0

\* C4: a single signal only sets the flag; the iteration's score, best-result
\* update and checkpoint write complete, the interrupted exit is taken at the
\* flag check only, and the checkpoint is whole at every exit on this path.
C4_GracefulInterrupt ==
    [][/\ (signals = 0 /\ signals' = 1) =>
            /\ nomore'
            /\ UNCHANGED <<pattern, numcol, stream, nread, cur, other,
                           oldhalf, minmisrpt, misrpt, index, bestbytes,
                           found, pc, how, afterflag, report>>
       /\ signals' <= 1 => pc' # "KeyboardInterrupt"
       /\ (how' = "interrupted" /\ how # "interrupted") =>
            /\ pc = "check"
            /\ misrpt' = ScoreOf(cur')
            /\ ~ScoreLess(misrpt', minmisrpt')
            /\ index' # Unbound
            /\ found' = [state |-> "whole", data |-> bestbytes']
       /\ (signals' <= 1 /\ pc' \in {"loop", "score", "check", "report", "exited"}) =>
            found'.state # "partial"
      ]_vars

C4_Witness ==
    /\ pc = "exited"
    /\ how = "interrupted"
    /\ signals = 1
    /\ found = [state |-> "whole", data |-> bestbytes]

\* C5: a second signal ends the program at once: the handler raises, and no
\* loop step, score or checkpoint write completes after it.
C5_SecondSignalKills ==
    [][/\ signals' >= 2 => pc' = "KeyboardInterrupt"
       /\ (signals = 1 /\ signals' = 2) =>
            UNCHANGED <<pattern, numcol, stream, nread, cur, other, oldhalf,
                        minmisrpt, misrpt, index, bestbytes, found, nomore,
                        how, afterflag, report>>
       /\ signals >= 2 => UNCHANGED vars
      ]_vars

C5_Witness ==
    /\ pc = "KeyboardInterrupt"
    /\ signals = 2
    /\ found.state = "partial"

\* C6 as stated: once the flag is set the loop starts at most one further
\* nibble, whether or not the windows are full.
C6_Original == afterflag <= 1

\* C6 amended: the flag is checked only in iterations that score a window
\* (iterations whose window is not yet full skip the check); once the flag is
\* set the loop starts at most one further nibble after a window has been
\* scored, so any second or later nibble started with the flag set belongs
\* to the first 2*numpix-1 nibbles.
C6_CheckedWhenFull ==
    /\ afterflag >= 2 => nread <= 2 * numpix - 1
    /\ (pc = "loop" /\ nomore /\ afterflag >= 1) => nread <= 2 * numpix - 2

C6_Witness ==
    /\ how = "interrupted"
    /\ afterflag >= 2
    /\ nread = 2 * numpix - 1

\* C7: when the stream ends without an exact match, whatever its length, the
\* final report cites a defined best offset and score.
C7_ExhaustionReports ==
    (how = "exhausted" /\ pc \notin {"report", "KeyboardInterrupt"}) =>
        (pc = "exited" /\ report # Unbound /\ index # Unbound)

\* C8: the reported hex-digit range is exactly the positions of the digits
\* forming the best window's bytes (digit 1 = first digit after the point),
\* the reported bit range is exactly the bits of those digits, and the index
\* is the one recorded when the best window was scored.
BitsOfDigit(d) == (4 * (d - 1) + 1)..(4 * d)

C8_ReportedRanges ==
    pc = "exited" =>
        LET lo == report[1][1]
            hi == report[2][1]
        IN /\ lo = index[1] + 1
           /\ lo >= 0
           /\ hi <= Len(stream)
           /\ (lo..hi) = {lo + j : j \in 0..(2 * numpix - 1)}
           /\ \A k \in 1..numpix :
                bestbytes[k] = 16 * PiDigit(lo + 2 * k - 2) + PiDigit(lo + 2 * k - 1)
           /\ ScoreOf(bestbytes) = minmisrpt
           /\ (report[3][1]..report[4][1]) = UNION {BitsOfDigit(d) : d \in lo..hi}

C8_Witness ==
    /\ pc = "exited"
    /\ report[1][1] >= 2
    /\ numpix >= 2

\* position of the high digit of byte k of a deque last updated at digit n
HighPos(dq, k, n) == n - 1 - 2 * (Len(dq) - k)

\* C9 as stated: every byte in a window is made of two consecutive digits
\* after the decimal point, and the recorded 1-indexed start is >= 1.
C9_Original ==
    /\ \A k \in 1..Len(cur) : HighPos(cur, k, nread) >= 1
    /\ index # Unbound => index[1] + 1 >= 1

\* C9 amended: every byte in a window is made of two consecutive digits of
\* 3.d1 d2 ..., the integer digit 3 being the high nibble of the first byte
\* pushed; the recorded 1-indexed start is >= 0, and a best window starting
\* at 0 begins with the integer digit.
C9_WithinExpansion ==
    /\ \A k \in 1..Len(cur) :
        /\ HighPos(cur, k, nread) >= 0
        /\ cur[k] = 16 * PiDigit(HighPos(cur, k, nread))
                    + PiDigit(HighPos(cur, k, nread) + 1)
    /\ \A k \in 1..Len(other) :
        /\ HighPos(other, k, nread - 1) >= 0
        /\ other[k] = 16 * PiDigit(HighPos(other, k, nread - 1))
                      + PiDigit(HighPos(other, k, nread - 1) + 1)
    /\ index # Unbound =>
        /\ index[1] + 1 >= 0
        /\ index[1] + 1 = 0 => bestbytes[1] \div 16 = 3

C9_Witness ==
    /\ pc = "exited"
    /\ index = <<-1>>
    /\ numpix >= 2

\* C10: the best score changes only to a strictly smaller one, and a window
\* whose score is not strictly smaller leaves the recorded offset, bytes and
\* checkpoint as they are.
C10_StrictImprovement ==
    [][/\ minmisrpt' # minmisrpt => ScoreLess(minmisrpt', minmisrpt)
       /\ (index' # index \/ bestbytes' # bestbytes) =>
            ScoreLess(minmisrpt', minmisrpt)
       /\ (pc = "score" /\ misrpt' # misrpt /\ ~ScoreLess(misrpt', minmisrpt)) =>
            (pc' = "check" /\ UNCHANGED <<minmisrpt, index, bestbytes, found>>)
       /\ found' # found => pc \in {"save", "saving"}
       /\ (pc # "save" /\ pc' = "save") => ScoreLess(minmisrpt', minmisrpt)
      ]_vars

C10_Witness ==
    /\ pc = "check"
    /\ misrpt = minmisrpt
    /\ bestbytes # cur

\* number of bytes a deque has been given after n nibbles, when it is the one
\* updated at nibble n (Given(n)) or at nibble n - 1 (Given(n - 1))
Given(n) == (n + 1) \div 2

AtMost(a, b) == IF a < b THEN a ELSE b

\* C11: a window never holds more than numpix bytes; once it has been given
\* numpix bytes it holds exactly numpix, the most recent ones of its parity,
\* oldest first; and a window is scored only when it is the one just updated
\* and holds exactly numpix bytes.
C11_WindowLength ==
    /\ Len(cur) = AtMost(numpix, Given(nread))
    /\ Len(other) = AtMost(numpix, Given(nread - 1))
    /\ nread >= 1 => cur = BytesAt(nread - 2 * Len(cur) + 1, Len(cur))
    /\ nread >= 2 => other = BytesAt(nread - 2 * Len(other), Len(other))
    /\ pc = "score" => Len(cur) = numpix
    /\ pc \in {"save", "check"} =>
        (Len(cur) = numpix /\ misrpt = ScoreOf(cur))

C11_Witness ==
    /\ pc = "score"
    /\ numpix >= 2
    /\ Given(nread) > numpix
    /\ Given(nread - 1) > numpix

\* C12: a loop step gives exactly one window exactly one new byte and leaves
\* the other window as it was; the window given the byte is the one that was
\* not given one in the step before; no other step touches a window.
C12_OneWindowPerStep ==
    [][/\ nread' # nread =>
            /\ nread' = nread + 1
            /\ other' = cur
            /\ \/ cur' = Append(other, 16 * PiDigit(nread) + PiDigit(nread + 1))
               \/ /\ Len(other) = numpix
                  /\ cur' = Append(Tail(other),
                                   16 * PiDigit(nread) + PiDigit(nread + 1))
       /\ nread' = nread => UNCHANGED <<cur, other>>
      ]_vars

C12_Witness ==
    /\ pc = "score"
    /\ numpix >= 2
    /\ Len(cur) = numpix
    /\ Len(other) = numpix
    /\ cur # other

\* the permutations of the family indices 0..nc-1, and a pattern relabelled
Perms(nc) ==
    {f \in [0..(nc - 1) -> 0..(nc - 1)] :
        \A a, b \in 0..(nc - 1) : f[a] = f[b] => a = b}

RECURSIVE RelabelUpTo(_, _, _)
RelabelUpTo(pat, f, n) ==
    IF n = 0 THEN <<>> ELSE Append(RelabelUpTo(pat, f, n - 1), f[pat[n]])

Relabel(pat, f) == RelabelUpTo(pat, f, Len(pat))

\* C15: the score of a window does not change when the family indices are
\* permuted (the pattern being relabelled accordingly).
C15_RelabelInvariant ==
    pc \in {"save", "check"} =>
        \A f \in Perms(numcol) :
            countmismatch(histogram(cur, Relabel(pattern, f), numcol)) = misrpt

C15_Witness ==
    /\ pc = "check"
    /\ numcol >= 2
    /\ misrpt[1] > 0
    /\ misrpt[2] > 0

\* C19: found.gif is rewritten, in full, once for every improvement of the
\* best score and at no other time; at every graceful exit of the loop with
\* a best result its pixel data are the bytes of the window at the best
\* offset, whose score is the best score.
C19_CheckpointPerImprovement ==
    [][/\ minmisrpt' # minmisrpt => pc' = "save"
       /\ (pc # "save" /\ pc' = "save") => minmisrpt' # minmisrpt
       /\ found' # found =>
            \/ pc = "save" /\ pc' = "saving" /\ found'.state = "partial"
            \/ pc = "saving" /\ found' = [state |-> "whole", data |-> bestbytes]
       /\ (pc = "saving" /\ pc' \in {"check", "report"}) =>
            found' = [state |-> "whole", data |-> bestbytes]
       /\ (pc # "report" /\ pc' = "report" /\ index' # Unbound) =>
            /\ found' = [state |-> "whole", data |-> bestbytes']
            /\ index'[1] >= -1
            /\ bestbytes' = WindowEnding(index'[1] + 2 * numpix)
            /\ ScoreOf(bestbytes') = minmisrpt'
       /\ (pc # "report" /\ pc' = "report" /\ index' = Unbound) =>
            found'.state = "absent"
      ]_vars

C19_Witness ==
    /\ pc = "report"
    /\ how = "interrupted"
    /\ index # Unbound
    /\ index[1] >= 0
    /\ found = [state |-> "whole", data |-> bestbytes]

\* C20: the initial best (numpix, numpix) is strictly greater than the score
\* of every full window, so the first window scored becomes the best result,
\* and the best result (offset, bytes, score) is defined at every exit taken
\* through the success branch or the flag check.
C20_FirstWindowIsBest ==
    /\ misrpt = Unbound => (minmisrpt = <<numpix, numpix>> /\ index = Unbound)
    /\ pc \in {"save", "check"} => ScoreLess(misrpt, <<numpix, numpix>>)
    /\ (pc \in {"save", "check"} /\ nread = 2 * numpix - 1) =>
        (index = <<-1>> /\ bestbytes = cur /\ minmisrpt = misrpt)
    /\ misrpt # Unbound =>
        (index # Unbound /\ Len(bestbytes) = numpix /\ ~ScoreLess(misrpt, minmisrpt))
    /\ how \in {"success", "interrupted"} =>
        (index # Unbound /\ Len(bestbytes) = numpix)

C20_Witness ==
    /\ pc = "exited"
    /\ how = "interrupted"
    /\ numpix >= 2
    /\ nread = 2 * numpix - 1
    /\ index = <<-1>>
    /\ minmisrpt[1] = numpix - 1


\* ---------------------------------------------------------------------
\* Colour selection (pifind.py lines 68-129 and 152-179).
\* A Counter is the sequence of its <<colour, count>> items in insertion
\* order; a colour is an <<R, G, B>> triple.

MaxWeight == 3

Background == 260

MaxFamilies == 6

StartDist == 250

DistStep == 20

DistLimit == 1000

MinThresh == 2

sq(x) == x * x

coldist(col1, col2) ==
    sq(col1[1] - col2[1]) + sq(col1[2] - col2[2]) + sq(col1[3] - col2[3])

\* round(a / b) of Python 3 for a >= 0, b > 0: ties go to the even integer
round(a, b) ==
    LET q == a \div b
        r == a % b
    IN  IF 2 * r < b THEN q
        ELSE IF 2 * r > b THEN q + 1
        ELSE IF q % 2 = 0 THEN q ELSE q + 1

RECURSIVE wsum(_, _)
\* sum of channel ch of the colours times their counts (ch = 0: the counts)
wsum(wts, ch) ==
    IF wts = <<>> THEN 0
    ELSE (IF ch = 0 THEN 1 ELSE Head(wts)[1][ch]) * Head(wts)[2]
         + wsum(Tail(wts), ch)

colavg(wts) ==
    LET totct == wsum(wts, 0)
    IN  IF totct = 0 THEN <<0, 0, 0>>
        ELSE <<round(wsum(wts, 1), totct), round(wsum(wts, 2), totct),
               round(wsum(wts, 3), totct)>>

RECURSIVE maxcount(_)
maxcount(C) ==
    IF C = <<>> THEN 0
    ELSE LET m == maxcount(Tail(C))
         IN  IF Head(C)[2] >= m THEN Head(C)[2] ELSE m

without(C, k) == SubSeq(C, 1, k - 1) \o SubSeq(C, k + 1, Len(C))

RECURSIVE most_common(_)
\* items by descending count; equal counts keep their insertion order
most_common(C) ==
    IF C = <<>> THEN <<>>
    ELSE LET m == maxcount(C)
             k == CHOOSE i \in 1..Len(C) :
                     /\ C[i][2] = m
                     /\ \A j \in 1..(i - 1) : C[j][2] # m
         IN  <<C[k]>> \o most_common(without(C, k))

keys(C) == [i \in 1..Len(C) |-> C[i][1]]

\* C[col] = num of a dict: a key already present keeps its place
setitem(C, col, num) ==
    IF \E i \in 1..Len(C) : C[i][1] = col
       THEN [i \in 1..Len(C) |-> IF C[i][1] = col THEN <<col, num>> ELSE C[i]]
       ELSE Append(C, <<col, num>>)

RECURSIVE counterof(_)
\* Counter({colavg(wts) : sum(wts.values()) for wts in families.values()})
counterof(fams) ==
    IF fams = <<>> THEN <<>>
    ELSE LET f == fams[Len(fams)]
         IN  setitem(counterof(SubSeq(fams, 1, Len(fams) - 1)),
                     colavg(f.wts), wsum(f.wts, 0))

near_centroid(col, fam, d) == coldist(col, colavg(fam.wts)) < d

\* line 104: the colour is compared with the key of the family
near(col, fam, d) == coldist(col, fam.key) < d

\* the first family the colour is near to, 0 when there is none
firstnear(fams, col, d) ==
    IF \E k \in 1..Len(fams) : near(col, fams[k], d)
       THEN CHOOSE k \in 1..Len(fams) :
               /\ near(col, fams[k], d)
               /\ \A j \in 1..(k - 1) : ~near(col, fams[j], d)
       ELSE 0

thresh(npix) ==
    LET r == round(npix, 100)
    IN  IF r >= MinThresh THEN r ELSE MinThresh

kept(num, npix) == num > thresh(npix)

RECURSIVE sievecolors(_, _)
sievecolors(C, npix) ==
    IF C = <<>> THEN <<>>
    ELSE IF kept(Head(C)[2], npix)
            THEN <<Head(C)[1]>> \o sievecolors(Tail(C), npix)
            ELSE sievecolors(Tail(C), npix)

\* numpix of line 150: every pixel is counted once in C
imgpix == wsum(hist, 0)


\* target images: seven colours far from each other and two close to the
\* first; a colour is absent, rare or frequent, one may fill the image and
\* the last ones, where present, are equally frequent
Palette ==
    << <<0, 0, 0>>, <<15, 0, 0>>, <<20, 0, 0>>, <<64, 0, 0>>, <<0, 64, 0>>,
       <<0, 0, 64>>, <<64, 64, 0>>, <<0, 64, 64>>, <<64, 0, 64>> >>

BackgroundAt == 4

EqualFrom == 7

WeightMaps ==
    {w \in [1..Len(Palette) -> {0, 1, MaxWeight, Background}] :
        \A i \in 1..Len(Palette) :
            /\ w[i] = Background => i = BackgroundAt
            /\ \A j \in 1..Len(Palette) :
                  (i >= EqualFrom /\ j >= EqualFrom /\ w[i] # 0 /\ w[j] # 0)
                      => w[i] = w[j]}

RECURSIVE histof(_, _)
histof(w, i) ==
    IF i > Len(Palette) THEN <<>>
    ELSE IF w[i] = 0 THEN histof(w, i + 1)
    ELSE <<<<Palette[i], w[i]>>>> \o histof(w, i + 1)

Histograms == {histof(w, 1) : w \in WeightMaps} \ {<<>>}

LimitChoices == 2..7

\* the state at line 153; nothing of the search is assigned yet
InitColor ==
    /\ hist \in Histograms
    /\ numcol = Len(hist)
    /\ pc = "select"
    /\ colors = <<>>
    /\ choice = "none"
    /\ rC = <<>>
    /\ rnumcol = 0
    /\ oldnum = 0
    /\ dist = 0
    /\ todo = <<>>
    /\ families = <<>>
    /\ pattern = <<>>
    /\ stream = <<>>
    /\ nread = 0
    /\ cur = <<>>
    /\ other = <<>>
    /\ oldhalf = 0
    /\ minmisrpt = Unbound
    /\ misrpt = Unbound
    /\ index = Unbound
    /\ bestbytes = <<>>
    /\ found = [state |-> "absent", data |-> <<>>]
    /\ nomore = FALSE
    /\ how = "running"
    /\ signals = 0
    /\ afterflag = 0
    /\ report = Unbound

\* lines 154, 178-179: at most six colours are taken as they are
Few ==
    /\ pc = "select"
    /\ numcol <= MaxFamilies
    /\ colors' = keys(hist)
    /\ pc' = "pattern"
    /\ UNCHANGED <<hist, numcol, choice, rC, rnumcol, oldnum, dist, todo, families>>
    /\ UNCHANGED searchvars

LimitCommon_accept2 ==
    /\ pc = "select"
    /\ numcol > MaxFamilies
    /\ choice' = "1"
    /\ \E n \in LimitChoices :
          /\ numcol' = n
          /\ IF n < 2 \/ n > MaxFamilies
                THEN pc' = "exit_invalid" /\ colors' = colors
                ELSE /\ colors' = SubSeq(keys(most_common(hist)), 1, n)
                     /\ pc' = "recolor"
    /\ UNCHANGED <<hist, rC, rnumcol, oldnum, dist, todo, families>>
    /\ UNCHANGED searchvars

\* lines 162-166: the numcol most common colours
LimitCommon ==
    /\ pc = "select"
    /\ numcol > MaxFamilies
    /\ choice' = "1"
    /\ \E n \in LimitChoices :
          /\ numcol' = n
          /\ IF n < 3 \/ n > MaxFamilies
                THEN pc' = "exit_invalid" /\ colors' = colors
                ELSE /\ colors' = SubSeq(keys(most_common(hist)), 1, n)
                     /\ pc' = "recolor"
    /\ UNCHANGED <<hist, rC, rnumcol, oldnum, dist, todo, families>>
    /\ UNCHANGED searchvars

\* lines 167-168, 120-122: reducecolors is entered
StartReduce ==
    /\ pc = "select"
    /\ numcol > MaxFamilies
    /\ choice' = "2"
    /\ rC' = hist
    /\ rnumcol' = Len(hist)
    /\ oldnum' = Len(hist) + 1
    /\ dist' = StartDist
    /\ pc' = "reduce"
    /\ UNCHANGED <<hist, numcol, colors, todo, families>>
    /\ UNCHANGED searchvars

\* lines 174-175
Quit ==
    /\ pc = "select"
    /\ numcol > MaxFamilies
    /\ choice' = "3"
    /\ pc' = "exit_quit"
    /\ UNCHANGED <<hist, numcol, colors, rC, rnumcol, oldnum, dist, todo, families>>
    /\ UNCHANGED searchvars

\* lines 123-127, 101-102: one more pass of colorfamilies begins
PassStart ==
    /\ pc = "reduce"
    /\ MaxFamilies < rnumcol
    /\ dist < DistLimit
    /\ dist' = IF rnumcol = oldnum THEN dist + DistStep ELSE dist
    /\ oldnum' = rnumcol
    /\ families' = <<>>
    /\ todo' = most_common(rC)
    /\ pc' = "pass"
    /\ UNCHANGED <<hist, numcol, colors, choice, rC, rnumcol>>
    /\ UNCHANGED searchvars

PassStep_centroid ==
    /\ pc = "pass"
    /\ todo # <<>>
    /\ LET col == Head(todo)[1]
           k == IF \E j \in 1..Len(families) : near_centroid(col, families[j], dist)
                   THEN CHOOSE j \in 1..Len(families) :
                           /\ near_centroid(col, families[j], dist)
                           /\ \A h \in 1..(j - 1) : ~near_centroid(col, families[h], dist)
                   ELSE 0
       IN  families' =
              IF k = 0
                 THEN Append(families, [key |-> col, wts |-> <<Head(todo)>>])
                 ELSE [families EXCEPT ![k].wts = Append(@, Head(todo))]
    /\ todo' = Tail(todo)
    /\ UNCHANGED <<hist, numcol, colors, choice, rC, rnumcol, oldnum, dist, pc>>
    /\ UNCHANGED searchvars

\* lines 102-108: the next colour joins a family or founds one
PassStep ==
    /\ pc = "pass"
    /\ todo # <<>>
    /\ LET col == Head(todo)[1]
           k == firstnear(families, col, dist)
       IN  families' =
              IF k = 0
                 THEN Append(families, [key |-> col, wts |-> <<Head(todo)>>])
                 ELSE [families EXCEPT ![k].wts = Append(@, Head(todo))]
    /\ todo' = Tail(todo)
    /\ UNCHANGED <<hist, numcol, colors, choice, rC, rnumcol, oldnum, dist, pc>>
    /\ UNCHANGED searchvars

\* lines 109, 127-128: the pass returns the Counter of the families
PassEnd ==
    /\ pc = "pass"
    /\ todo = <<>>
    /\ rC' = counterof(families)
    /\ rnumcol' = Len(rC')
    /\ pc' = "reduce"
    /\ UNCHANGED <<hist, numcol, colors, choice, oldnum, dist, todo, families>>
    /\ UNCHANGED searchvars

Sieve_onsuccess ==
    /\ pc = "reduce"
    /\ ~(MaxFamilies < rnumcol /\ dist < DistLimit)
    /\ colors' = IF rnumcol <= MaxFamilies THEN sievecolors(rC, imgpix) ELSE keys(rC)
    /\ pc' = "judge"
    /\ UNCHANGED <<hist, numcol, choice, rC, rnumcol, oldnum, dist, todo, families>>
    /\ UNCHANGED searchvars

\* lines 123, 129, 168: the loop is over and the sieved colours are returned
Sieve ==
    /\ pc = "reduce"
    /\ ~(MaxFamilies < rnumcol /\ dist < DistLimit)
    /\ colors' = sievecolors(rC, imgpix)
    /\ pc' = "judge"
    /\ UNCHANGED <<hist, numcol, choice, rC, rnumcol, oldnum, dist, todo, families>>
    /\ UNCHANGED searchvars

Judge_accept7 ==
    /\ pc = "judge"
    /\ numcol' = Len(colors)
    /\ pc' = IF numcol' > MaxFamilies + 1 THEN "exit_toomany" ELSE "recolor"
    /\ UNCHANGED <<hist, colors, choice, rC, rnumcol, oldnum, dist, todo, families>>
    /\ UNCHANGED searchvars

\* lines 169-173: more than six colours left is the end of the run
Judge ==
    /\ pc = "judge"
    /\ numcol' = Len(colors)
    /\ pc' = IF numcol' > MaxFamilies THEN "exit_toomany" ELSE "recolor"
    /\ UNCHANGED <<hist, colors, choice, rC, rnumcol, oldnum, dist, todo, families>>
    /\ UNCHANGED searchvars

\* lines 176-177, 131-135, 73-75: min() of no colours raises ValueError
Recolor ==
    /\ pc = "recolor"
    /\ pc' = IF colors = <<>> THEN "ValueError" ELSE "pattern"
    /\ UNCHANGED <<hist, numcol, colors, choice, rC, rnumcol, oldnum, dist, todo, families>>
    /\ UNCHANGED searchvars

NextColor ==
    \/ Few
    \/ LimitCommon
    \/ StartReduce
    \/ Quit
    \/ PassStart
    \/ PassStep
    \/ PassEnd
    \/ Sieve
    \/ Judge
    \/ Recolor

SpecColor == InitColor /\ [][NextColor]_vars


\* C13: colour reduction ends with at most six colours or with the report
\* that too many families are left, which stops the run; recolouring and
\* pattern construction never start with more than six colours.
C13_AtMostSixOrFailure ==
    /\ pc \in {"recolor", "pattern"} =>
          (Len(colors) <= MaxFamilies /\ numcol = Len(colors))
    /\ (choice = "2" /\ pc \in {"recolor", "pattern", "ValueError", "exit_toomany"}) =>
          /\ colors = sievecolors(rC, imgpix)
          /\ pc = "exit_toomany" <=> Len(colors) > MaxFamilies
    /\ pc = "exit_toomany" => choice = "2"

C13_Witness ==
    /\ pc = "exit_toomany"
    /\ choice = "2"
    /\ Len(hist) > MaxFamilies + 1
    /\ Len(colors) = MaxFamilies + 1


\* C14 as stated: whenever pattern construction starts, the number of
\* colours is in [3,6] on every colour-selection path.
C14_Original ==
    pc = "pattern" => numcol \in 3..MaxFamilies

\* C14: whenever pattern construction starts, numcol is the length of the
\* colour list and is in [1,6]; an image of at most six colours keeps all of
\* them, the limit to the N most common colours gives N in [3,6], automatic
\* reduction gives the colours the sieve left, and when the sieve left none
\* recolouring raises before the pattern is built.
C14_OneToSix ==
    /\ pc = "pattern" =>
          /\ numcol = Len(colors)
          /\ numcol \in 1..MaxFamilies
          /\ choice \in {"none", "1", "2"}
          /\ choice = "none" => colors = keys(hist)
          /\ choice = "1" =>
                /\ numcol \in 3..MaxFamilies
                /\ colors = SubSeq(keys(most_common(hist)), 1, numcol)
          /\ choice = "2" => colors = sievecolors(rC, imgpix)
    /\ pc = "ValueError" => (choice = "2" /\ colors = <<>> /\ numcol = 0)
    /\ pc = "exit_invalid" => (choice = "1" /\ numcol \notin 3..MaxFamilies)

C14_Witness ==
    /\ pc = "pattern"
    /\ choice = "2"
    /\ Len(hist) > MaxFamilies
    /\ numcol < 3


\* reducecolors has returned
Reduced ==
    /\ choice = "2"
    /\ pc \in {"judge", "exit_toomany", "recolor", "pattern", "ValueError"}

\* C16 as stated: when escalation ends with more than six families the
\* failure is reported and the pattern is never built; the sieve is applied
\* only after a reduction to at most six families.
C16_Original ==
    (Reduced /\ rnumcol > MaxFamilies) =>
        /\ colors = keys(rC)
        /\ pc \in {"judge", "exit_toomany"}

\* C16: escalation ends with at most six families or with the distance at
\* its limit; the sieve is applied to the families of the last pass in both
\* cases, and the failure is reported exactly when more than six colours are
\* left after the sieve, so a failed reduction of which the sieve leaves at
\* most six colours is accepted.
C16_SieveAlways ==
    Reduced =>
        /\ rnumcol <= MaxFamilies \/ (dist >= DistLimit /\ dist < DistLimit + DistStep)
        /\ rnumcol = Len(rC)
        /\ colors = sievecolors(rC, imgpix)
        /\ pc # "judge" => (pc = "exit_toomany" <=> Len(colors) > MaxFamilies)
        /\ pc = "exit_toomany" => rnumcol > MaxFamilies
        /\ (pc = "pattern" /\ rnumcol > MaxFamilies) =>
              \E k \in 1..Len(rC) : ~kept(rC[k][2], imgpix)

C16_Witness ==
    /\ Reduced
    /\ pc = "pattern"
    /\ rnumcol > MaxFamilies
    /\ dist >= DistLimit
    /\ numcol >= 3


\* C17: the sieve keeps exactly the families whose weight is at least
\* max(1% of the pixels, 2) and drops exactly those below it.
C17_SieveKeepsAtLeast ==
    Reduced =>
        \A k \in 1..Len(rC) :
            (\E c \in 1..Len(colors) : colors[c] = rC[k][1])
                <=> (rC[k][2] >= MinThresh /\ 100 * rC[k][2] >= imgpix)


keyof(fam) == fam.key

centroidof(fam) == colavg(fam.wts)

\* a step of the pass visits the head of todo
Visits == pc = "pass" /\ todo # <<>> /\ todo' = Tail(todo)

\* the visited colour joins the first family whose representative rep is
\* nearer than dist, and founds a family when there is none
JoinsFirst(rep(_)) ==
    LET col == Head(todo)[1]
        ok(j) == coldist(col, rep(families[j])) < dist
    IN  IF \E j \in 1..Len(families) : ok(j)
           THEN \E k \in 1..Len(families) :
                   /\ ok(k)
                   /\ \A j \in 1..(k - 1) : ~ok(j)
                   /\ families' = [families EXCEPT ![k].wts = Append(@, Head(todo))]
           ELSE families' = Append(families, [key |-> col, wts |-> <<Head(todo)>>])

Descending(items) ==
    \A i \in 1..Len(items) : \A j \in i..Len(items) : items[i][2] >= items[j][2]

\* C18 as stated: colours are visited by descending frequency and each joins
\* the first family whose weighted mean so far is nearer than D, else
\* founds a family.
C18_Original ==
    [][Visits => (Descending(todo) /\ JoinsFirst(centroidof))]_vars

\* C18: colours are visited by descending frequency and each joins the
\* first family whose founding colour, the most frequent of its members, is
\* nearer than D, else founds a family; the weighted means are taken only
\* when the pass is over.
C18_NearestFounder ==
    [][/\ Visits =>
            /\ Descending(todo)
            /\ JoinsFirst(keyof)
            /\ \A k \in 1..Len(families') :
                  /\ families'[k].key = families'[k].wts[1][1]
                  /\ Descending(families'[k].wts)
       /\ (pc = "pass" /\ pc' = "reduce") =>
            /\ todo = <<>>
            /\ rC' = counterof(families)
            /\ \A k \in 1..Len(families) :
                  \E c \in 1..Len(rC') : rC'[c][1] = colavg(families[k].wts)
      ]_vars

C18_Witness ==
    /\ pc = "pass"
    /\ Len(families) >= 2
    /\ Len(families[Len(families)].wts) = 1
    /\ \E j \in 1..(Len(families) - 1) :
          /\ Len(families[j].wts) >= 2
          /\ coldist(families[Len(families)].key, colavg(families[j].wts)) < dist
          /\ coldist(families[Len(families)].key, families[j].key) >= dist


\* a signal is delivered in this step
Delivered == signals' = signals + 1

\* C21: the handler changes nothing but the flag: a delivered signal leaves
\* both windows, the previous nibble, the best score, the best offset and
\* the best bytes as they were, it sets the flag when it was clear and
\* raises when it was set, and no step of the run clears the flag.
C21_HandlerFrame ==
    [][/\ signals' # signals => Delivered
       /\ Delivered =>
            /\ UNCHANGED <<cur, other, oldhalf, minmisrpt, index, bestbytes>>
            /\ UNCHANGED <<pattern, numcol, stream, nread, misrpt, found,
                           how, report>>
            /\ nomore'
            /\ ~nomore => pc' = pc
            /\ nomore => pc' = "KeyboardInterrupt"
       /\ nomore => nomore'
       /\ (nomore' /\ ~nomore) => Delivered
      ]_vars

C21_Witness ==
    /\ pc = "saving"
    /\ nomore
    /\ signals = 1
    /\ numpix >= 2
    /\ Len(cur) = numpix
    /\ Len(other) = numpix
    /\ index # Unbound
    /\ index[1] >= 0
    /\ found.state = "partial"

====
